---- MODULE Spec2Model ----
(***************************************************************************)
(* Dependency symbol retrieval of serena: DependencySymbolRetriever        *)
(* (src/src/serena/dependency_symbol.py), its decompiler backends          *)
(* (src/src/serena/dependency_decompiler.py) and its configuration         *)
(* (src/src/serena/config/dependency_config.py).                           *)
(*                                                                         *)
(* Python strings are sequences of one-character strings, so that lower(), *)
(* endswith(), startswith(), splitext(), `in` and f-string concatenation   *)
(* are computed character by character.  An Optional value is a record     *)
(* [some, val].  The retriever is single-threaded and synchronous, so each *)
(* public operation is one action.                                         *)
(***************************************************************************)
EXTENDS Integers, Sequences, FiniteSets, TLC

VARIABLES
    config,              \* self.config: the DependencySymbolConfig of the retriever
    files,               \* file system: directory -> file names in os.walk order
    xml,                 \* file system: manifest path -> what ET.parse does with it
    types,               \* file system: dll path -> type names the assembly declares
    gone,                \* file system: paths that have disappeared from disk
    tool,                \* what running the ilspycmd executable does
    _dependencies_info,  \* self._dependencies_info
    _dependency_cache,   \* self._dependency_cache: cache key -> list object
    _decompiler,         \* self._decompiler
    runs,                \* _discover_dependencies calls since construction / last clear_cache
    call,                \* the last public call: operation, arguments, locals, outcome
    peer                 \* a second retriever of the same process, when there is one

vars == <<config, files, xml, types, gone, tool, _dependencies_info,
          _dependency_cache, _decompiler, runs, call, peer>>

(***************************************************************************)
(* Bounds of the model.                                                    *)
(***************************************************************************)
MaxRuns == 2        \* discovery runs explored between two clear_cache calls
MaxGone == 1        \* files that disappear from disk during a run
MaxNameLen == 3     \* length of the names and patterns of the matching inputs

(***************************************************************************)
(* Strings.                                                                *)
(***************************************************************************)
None == [some |-> FALSE, val |-> <<>>]
Some(v) == [some |-> TRUE, val |-> v]
\* Python truthiness of an Optional string or sequence
Truthy(o) == o.some /\ o.val # <<>>

UpperCase == <<"A","B","C","D","E","F","G","H","I","J","K","L","M",
               "N","O","P","Q","R","S","T","U","V","W","X","Y","Z">>
LowerCase == <<"a","b","c","d","e","f","g","h","i","j","k","l","m",
               "n","o","p","q","r","s","t","u","v","w","x","y","z">>

\* str.lower() on one character (ASCII)
ToLower ==
    [c \in {UpperCase[i] : i \in DOMAIN UpperCase} |->
        LowerCase[CHOOSE i \in DOMAIN UpperCase : UpperCase[i] = c]]

LowerChar(c) == IF c \in DOMAIN ToLower THEN ToLower[c] ELSE c

\* str.lower()
Lower(s) == [i \in 1..Len(s) |-> LowerChar(s[i])]

\* `sub in s` on strings
IsSubstring(sub, s) ==
    \E k \in 0..(Len(s) - Len(sub)) : SubSeq(s, k + 1, k + Len(sub)) = sub

\* s.startswith(p)
StartsWith(s, p) == Len(p) <= Len(s) /\ SubSeq(s, 1, Len(p)) = p

\* s.endswith(p)
EndsWith(s, p) == Len(p) <= Len(s) /\ SubSeq(s, Len(s) - Len(p) + 1, Len(s)) = p

\* os.path.splitext(file)[0]: the name up to its last dot, leading dots kept
SplitExtRoot(file) ==
    LET dots == {i \in 1..Len(file) : file[i] = "."}
        lead == {i \in 1..Len(file) : \A j \in 1..i : file[j] = "."}
        cut  == dots \ lead
    IN IF cut = {} THEN file
       ELSE SubSeq(file, 1, (CHOOSE i \in cut : \A j \in cut : j <= i) - 1)

\* str(bool) as an f-string prints it
BoolStr(b) == IF b THEN <<"T","r","u","e">> ELSE <<"F","a","l","s","e">>

\* the dependency type tags as text
TypeStr(t) ==
    CASE t = "nuget" -> <<"n","u","g","e","t">>
      [] t = "dll"   -> <<"d","l","l">>
      [] OTHER       -> <<"p","r","o","j","e","c","t">>

DllExt == <<".","d","l","l">>
CsprojExt == <<".","c","s","p","r","o","j">>
SystemPrefix == <<"S","y","s","t","e","m",".">>
ExternalPrefix == <<"e","x","t","e","r","n","a","l",":">>
Unknown == <<"u","n","k","n","o","w","n">>

\* the element of a one-element set: The({e(x) : x \in {v}}) evaluates v once
\* and names it x, where LET x == v would evaluate v at each use
The(S) == CHOOSE x \in S : TRUE

RECURSIVE Concat(_)
\* list.extend over a sequence of lists
Concat(ss) == IF ss = <<>> THEN <<>> ELSE Head(ss) \o Concat(Tail(ss))

(***************************************************************************)
(* The file system the retriever reads.                                    *)
(***************************************************************************)
ProjectRoot == "proj"
Dirs == {"proj", "proj/libs", "ext"}

\* the sub-directories os.walk descends into, in order
SubDirs(d) == IF d = "proj" THEN <<"proj/libs">> ELSE <<>>

Path(d, f) == [dir |-> d, file |-> f]

\* os.path.isdir(path)
IsDir(d) == d \in Dirs

\* os.path.exists(path)
Exists(p) ==
    /\ p.dir \in Dirs
    /\ p \notin gone
    /\ \E i \in DOMAIN files[p.dir] : files[p.dir][i] = p.file

\* the files os.walk reports for one directory
Listing(d) ==
    LET here == SelectSeq(files[d], LAMBDA f : Path(d, f) \notin gone)
    IN [i \in 1..Len(here) |-> Path(d, here[i])]

RECURSIVE WalkAll(_)
RECURSIVE Walk(_)
\* os.walk(top), top-down: the files of top, then those of each sub-directory
Walk(d) == IF ~IsDir(d) THEN <<>> ELSE Listing(d) \o WalkAll(SubDirs(d))
WalkAll(ds) == IF ds = <<>> THEN <<>> ELSE Walk(Head(ds)) \o WalkAll(Tail(ds))

(***************************************************************************)
(* DependencyInfo and discovery.                                           *)
(***************************************************************************)
NugetInfo(name, version) ==
    [name |-> name, version |-> version, type |-> "nuget",
     path |-> None, assembly_name |-> Some(name \o DllExt)]

DllInfo(p) ==
    [name |-> SplitExtRoot(p.file), version |-> Unknown, type |-> "dll",
     path |-> Some(p), assembly_name |-> Some(SplitExtRoot(p.file))]

RECURSIVE PackageRefsIncludeOnly(_)
\* the PackageReference loop with the Version test forgotten
PackageRefsIncludeOnly(refs) ==
    IF refs = <<>> THEN <<>>
    ELSE LET r == Head(refs)
         IN (IF Truthy(r.Include)
             THEN <<NugetInfo(r.Include.val, r.Version.val)>>
             ELSE <<>>) \o PackageRefsIncludeOnly(Tail(refs))

RECURSIVE PackageRefs(_)
\* the PackageReference loop of one parsed manifest
PackageRefs(refs) ==
    IF refs = <<>> THEN <<>>
    ELSE LET r == Head(refs)
         IN (IF Truthy(r.Include) /\ Truthy(r.Version)
             THEN <<NugetInfo(r.Include.val, r.Version.val)>>
             ELSE <<>>) \o PackageRefs(Tail(refs))

RECURSIVE ParseManifests(_, _)
\* the loop over csproj_files: a ParseError skips the file, any other
\* exception of ET.parse leaves the loop with what was appended so far
ParseManifests(paths, deps) ==
    IF paths = <<>> THEN [deps |-> deps, raised |-> "none"]
    ELSE LET m == xml[Head(paths)]
         IN CASE m.status = "unreadable" -> [deps |-> deps, raised |-> "OSError"]
              [] m.status = "malformed"  -> ParseManifests(Tail(paths), deps)
              [] OTHER -> ParseManifests(Tail(paths), deps \o PackageRefs(m.refs))

_discover_nuget_dependencies(deps) ==
    LET csproj_files == SelectSeq(Walk(ProjectRoot), LAMBDA p : EndsWith(p.file, CsprojExt))
    IN ParseManifests(csproj_files, deps)

\* the file loop of one search path
DllsOf(found) ==
    LET kept == SelectSeq(found, LAMBDA p :
                    /\ EndsWith(p.file, DllExt)
                    /\ ~(~config.include_system_assemblies /\ StartsWith(p.file, SystemPrefix)))
    IN [i \in 1..Len(kept) |-> DllInfo(kept[i])]

RECURSIVE ScanPaths(_)
ScanPaths(search_paths) ==
    IF search_paths = <<>> THEN <<>>
    ELSE (IF ~IsDir(Head(search_paths)) THEN <<>> ELSE DllsOf(Walk(Head(search_paths))))
         \o ScanPaths(Tail(search_paths))

\* the binary scan that lists each path once
DiscoverExternalDllsOnce(deps) ==
    LET all == ScanPaths(<<ProjectRoot>> \o config.external_search_paths)
        first == {i \in DOMAIN all : \A j \in 1..(i - 1) : all[j] # all[i]}
    IN deps \o SelectSeq([i \in DOMAIN all |-> IF i \in first THEN all[i] ELSE None],
                         LAMBDA x : x # None)

_discover_external_dlls(deps) ==
    deps \o ScanPaths(<<ProjectRoot>> \o config.external_search_paths)

\* resets the list, then the package scan, then the binary scan
_discover_dependencies ==
    The({ IF nuget.raised # "none" THEN nuget
          ELSE [deps |-> _discover_external_dlls(nuget.deps), raised |-> "none"] :
          nuget \in {_discover_nuget_dependencies(<<>>)} })

\* `if not self._dependencies_info: self._discover_dependencies()`
EnsureDiscovered ==
    IF _dependencies_info = <<>>
    THEN [ran |-> TRUE] @@ _discover_dependencies
    ELSE [ran |-> FALSE, deps |-> _dependencies_info, raised |-> "none"]

(***************************************************************************)
(* Decompiler backends.                                                    *)
(***************************************************************************)
IlSpyDecompiler(ilspycmd_path, depth, include_private_members) ==
    [class |-> "IlSpyDecompiler", ilspycmd_path |-> ilspycmd_path,
     depth |-> depth, include_private_members |-> include_private_members]

CecilDecompiler(depth, include_private_members) ==
    [class |-> "CecilDecompiler", ilspycmd_path |-> "",
     depth |-> depth, include_private_members |-> include_private_members]

\* the `try` of the "auto" branch: the constructor of IlSpyDecompiler only
\* stores its arguments (it resolves no executable and imports nothing), so
\* it raises nothing
TryIlSpyDecompiler(cfg) ==
    [raised |-> "none",
     val |-> IlSpyDecompiler(cfg.ilspycmd_path, cfg.decompilation_depth,
                             cfg.include_private_members)]

\* the selector with the configured depth and member option left at the
\* constructor defaults
GetDecompilerDefaultArguments(cfg) ==
    CASE cfg.decompiler_backend = "ilspy" -> Some(IlSpyDecompiler(cfg.ilspycmd_path, 1, FALSE))
      [] cfg.decompiler_backend = "cecil" -> Some(CecilDecompiler(1, FALSE))
      [] cfg.decompiler_backend = "auto" -> Some(IlSpyDecompiler(cfg.ilspycmd_path, 1, FALSE))
      [] OTHER -> None

_get_decompiler(cfg) ==
    CASE cfg.decompiler_backend = "ilspy" ->
            Some(IlSpyDecompiler(cfg.ilspycmd_path, cfg.decompilation_depth,
                                 cfg.include_private_members))
      [] cfg.decompiler_backend = "cecil" ->
            Some(CecilDecompiler(cfg.decompilation_depth, cfg.include_private_members))
      [] cfg.decompiler_backend = "auto" ->
            The({ IF made.raised = "ImportError"
                  THEN Some(CecilDecompiler(cfg.decompilation_depth,
                                            cfg.include_private_members))
                  ELSE Some(made.val) :
                  made \in {TryIlSpyDecompiler(cfg)} })
      [] OTHER -> None

\* subprocess.run(cmd, check=True) of the configured executable:
\*   "ok" exit 0, "exit1" CalledProcessError, "missing" FileNotFoundError (both
\*   caught by the backend), "noexec" PermissionError (not caught)
ToolStates == {"ok", "exit1", "missing", "noexec"}

FailedStub == <<"/","/"," ","F","a","i","l","e","d"," ","t","o"," ",
                "d","e","c","o","m","p","i","l","e"," ">>
CecilStub == <<"/","/"," ","D","e","c","o","m","p","i","l","e","d"," ",
               "b","o","d","y"," ","o","f"," ">>

enumerate_types(backend, assembly_path) ==
    IF backend.class = "CecilDecompiler" THEN [raised |-> "none", val |-> <<>>]
    ELSE CASE tool = "ok"     -> [raised |-> "none", val |-> types[assembly_path]]
           [] tool = "noexec" -> [raised |-> "PermissionError", val |-> <<>>]
           [] OTHER           -> [raised |-> "none", val |-> <<>>]

decompile_type_body(backend, assembly_path, type_name) ==
    IF backend.class = "CecilDecompiler"
    THEN [raised |-> "none", val |-> CecilStub \o type_name]
    ELSE CASE tool = "ok"     -> [raised |-> "none", val |-> <<"c","l","a","s","s"," ">> \o type_name]
           [] tool = "noexec" -> [raised |-> "PermissionError", val |-> <<>>]
           [] OTHER           -> [raised |-> "none", val |-> FailedStub \o type_name]

(***************************************************************************)
(* Symbols of one dependency.                                              *)
(***************************************************************************)
Symbol(name, kind, owner) ==
    [name |-> Some(name), kind |-> kind, location |-> ExternalPrefix \o owner]

common_types == <<
    [namespace |-> <<"S","y","s","t","e","m">>,
     type_name |-> <<"C","o","n","s","o","l","e">>, kind |-> "Class"],
    [namespace |-> <<"S","y","s","t","e","m">>,
     type_name |-> <<"S","t","r","i","n","g">>, kind |-> "Class"],
    [namespace |-> <<"S","y","s","t","e","m">>,
     type_name |-> <<"I","n","t","3","2">>, kind |-> "Class"],
    [namespace |-> <<"S","y","s","t","e","m",".","C","o","l","l","e","c","t","i","o","n","s">>,
     type_name |-> <<"L","i","s","t">>, kind |-> "Class"],
    [namespace |-> <<"S","y","s","t","e","m",".","C","o","l","l","e","c","t","i","o","n","s",
                     ".","G","e","n","e","r","i","c">>,
     type_name |-> <<"D","i","c","t","i","o","n","a","r","y">>, kind |-> "Class"] >>

\* the table test on the namespace alone
CreateCommonSymbolsByNamespaceOnly(dependency) ==
    LET hit == SelectSeq(common_types, LAMBDA t :
                   IsSubstring(Lower(dependency.name), Lower(t.namespace)))
    IN [i \in 1..Len(hit) |-> Symbol(hit[i].type_name, hit[i].kind, dependency.name)]

_create_common_dotnet_symbols(dependency) ==
    LET hit == SelectSeq(common_types, LAMBDA t :
                   \/ IsSubstring(Lower(dependency.name), Lower(t.namespace))
                   \/ IsSubstring(Lower(dependency.name), Lower(t.type_name)))
    IN [i \in 1..Len(hit) |-> Symbol(hit[i].type_name, hit[i].kind, dependency.name)]

_create_placeholder_dll_symbols(dependency) ==
    <<Symbol(dependency.name, "Class", dependency.name)>>

_get_nuget_symbols(dependency, include_body) ==
    _create_common_dotnet_symbols(dependency)

RECURSIVE TypeLoop(_, _, _, _)
\* the loop over type_names: one placeholder per type, the body decompiled
\* (and dropped) when include_body
TypeLoop(dependency, include_body, type_names, acc) ==
    IF type_names = <<>> THEN acc
    ELSE LET body == IF include_body
                     THEN decompile_type_body(_decompiler.val, dependency.path.val, Head(type_names))
                     ELSE [raised |-> "none", val |-> <<>>]
         IN IF body.raised # "none" THEN [acc EXCEPT !.raised = body.raised]
            ELSE TypeLoop(dependency, include_body, Tail(type_names),
                    [acc EXCEPT !.syms = @ \o <<_create_placeholder_dll_symbols(dependency)[1]>>,
                                !.decompiled = @ \o (IF include_body
                                                     THEN <<[path |-> dependency.path.val,
                                                             type |-> Head(type_names)]>>
                                                     ELSE <<>>)])

\* _get_dll_symbols without the os.path.exists test
GetDllSymbolsNoExistsTest(dependency, include_body) ==
    LET nothing == [raised |-> "none", syms |-> <<>>, enumerated |-> <<>>, decompiled |-> <<>>]
    IN IF ~dependency.path.some \/ ~_decompiler.some
       THEN nothing
       ELSE IF ~config.decompilation_enabled
       THEN [nothing EXCEPT !.syms = _create_placeholder_dll_symbols(dependency)]
       ELSE LET type_names == enumerate_types(_decompiler.val, dependency.path.val)
                started == [nothing EXCEPT !.enumerated = <<dependency.path.val>>]
            IN IF type_names.raised # "none"
               THEN [started EXCEPT !.raised = type_names.raised]
               ELSE TypeLoop(dependency, include_body, type_names.val, started)

_get_dll_symbols(dependency, include_body) ==
    LET nothing == [raised |-> "none", syms |-> <<>>, enumerated |-> <<>>, decompiled |-> <<>>]
    IN IF ~dependency.path.some \/ ~Exists(dependency.path.val) \/ ~_decompiler.some
       THEN nothing
       ELSE IF ~config.decompilation_enabled
       THEN [nothing EXCEPT !.syms = _create_placeholder_dll_symbols(dependency)]
       ELSE LET type_names == enumerate_types(_decompiler.val, dependency.path.val)
                started == [nothing EXCEPT !.enumerated = <<dependency.path.val>>]
            IN IF type_names.raised # "none"
               THEN [started EXCEPT !.raised = type_names.raised]
               ELSE TypeLoop(dependency, include_body, type_names.val, started)

\* a cache key that leaves the body flag out
CacheKeyWithoutFlag(dependency, include_body) ==
    TypeStr(dependency.type) \o <<":">> \o dependency.name \o <<":">> \o dependency.version

\* f"{dependency.type}:{dependency.name}:{dependency.version}:{include_body}"
CacheKey(dependency, include_body) ==
    TypeStr(dependency.type) \o <<":">> \o dependency.name \o <<":">>
        \o dependency.version \o <<":">> \o BoolStr(include_body)

\* A list object: its symbols, and the resolution that created it (the
\* include_body flag and the dependency path of that call).
ListObject(syms, dependency, include_body) ==
    [syms |-> syms, body |-> include_body, path |-> dependency.path]

\* the miss branch, once the symbols are computed
StoreSymbols(cache, cache_key, dependency, include_body, got) ==
    LET symbols == ListObject(got.syms, dependency, include_body)
    IN IF got.raised # "none"
       THEN [cache |-> cache, list |-> symbols, hit |-> FALSE, raised |-> got.raised,
             enumerated |-> got.enumerated, decompiled |-> got.decompiled]
       ELSE [cache |-> [k \in DOMAIN cache \cup {cache_key} |->
                           IF k = cache_key THEN symbols ELSE cache[k]],
             list |-> symbols, hit |-> FALSE, raised |-> "none",
             enumerated |-> got.enumerated, decompiled |-> got.decompiled]

\* the resolution that never looks the key up: it computes and stores each time
GetDependencySymbolsRecomputed(cache, dependency, include_body) ==
    StoreSymbols(cache, CacheKey(dependency, include_body), dependency, include_body,
                 IF dependency.type = "nuget"
                 THEN [raised |-> "none",
                       syms |-> _get_nuget_symbols(dependency, include_body),
                       enumerated |-> <<>>, decompiled |-> <<>>]
                 ELSE IF dependency.type = "dll" /\ dependency.path.some
                 THEN _get_dll_symbols(dependency, include_body)
                 ELSE [raised |-> "none", syms |-> <<>>,
                       enumerated |-> <<>>, decompiled |-> <<>>])

_get_dependency_symbols(cache, dependency, include_body) ==
    The({ IF cache_key \in DOMAIN cache
          THEN [cache |-> cache, list |-> cache[cache_key], hit |-> TRUE, raised |-> "none",
                enumerated |-> <<>>, decompiled |-> <<>>]
          ELSE The({ StoreSymbols(cache, cache_key, dependency, include_body, got) :
                     got \in { IF dependency.type = "nuget"
                               THEN [raised |-> "none",
                                     syms |-> _get_nuget_symbols(dependency, include_body),
                                     enumerated |-> <<>>, decompiled |-> <<>>]
                               ELSE IF dependency.type = "dll" /\ dependency.path.some
                               THEN _get_dll_symbols(dependency, include_body)
                               ELSE [raised |-> "none", syms |-> <<>>,
                                     enumerated |-> <<>>, decompiled |-> <<>>] } }) :
          cache_key \in {CacheKey(dependency, include_body)} })

(***************************************************************************)
(* Matching and the query.                                                 *)
(***************************************************************************)
Elems(seq) == {seq[i] : i \in DOMAIN seq}

\* matching that lower-cases the symbol name only
MatchesPatternNotLowered(symbol, name_path, include_kinds, exclude_kinds, substring_matching) ==
    IF Truthy(include_kinds) /\ symbol.kind \notin Elems(include_kinds.val) THEN FALSE
    ELSE IF Truthy(exclude_kinds) /\ symbol.kind \in Elems(exclude_kinds.val) THEN FALSE
    ELSE LET symbol_name == IF Truthy(symbol.name) THEN symbol.name.val ELSE <<>>
         IN IF substring_matching
            THEN IsSubstring(name_path, Lower(symbol_name))
            ELSE Lower(symbol_name) = name_path

\* matching that forgets the include_kinds test
MatchesIncludeIgnored(symbol, name_path, include_kinds, exclude_kinds, substring_matching) ==
    IF Truthy(exclude_kinds) /\ symbol.kind \in Elems(exclude_kinds.val) THEN FALSE
    ELSE LET symbol_name == IF Truthy(symbol.name) THEN symbol.name.val ELSE <<>>
         IN IF substring_matching
            THEN IsSubstring(Lower(name_path), Lower(symbol_name))
            ELSE Lower(symbol_name) = Lower(name_path)

_matches_search_criteria(symbol, name_path, include_kinds, exclude_kinds, substring_matching) ==
    IF Truthy(include_kinds) /\ symbol.kind \notin Elems(include_kinds.val) THEN FALSE
    ELSE IF Truthy(exclude_kinds) /\ symbol.kind \in Elems(exclude_kinds.val) THEN FALSE
    ELSE LET symbol_name == IF Truthy(symbol.name) THEN symbol.name.val ELSE <<>>
         IN IF substring_matching
            THEN IsSubstring(Lower(name_path), Lower(symbol_name))
            ELSE Lower(symbol_name) = Lower(name_path)

\* the loop test with the nuget toggle forgotten
SkippedDllOnly(dep, a) == dep.type = "dll" /\ ~a.include_external_dlls

\* `continue` of the dependency loop
Skipped(dep, a) ==
    \/ dep.type = "nuget" /\ ~a.include_nuget
    \/ dep.type = "dll" /\ ~a.include_external_dlls

RECURSIVE ResolveAll(_, _, _, _)
\* the dependency loop of find_dependency_symbols from index i on
ResolveAll(deps, i, a, acc) ==
    IF i > Len(deps) THEN acc
    ELSE IF Skipped(deps[i], a) THEN ResolveAll(deps, i + 1, a, acc)
    ELSE The({ IF r.raised # "none"
               THEN [acc EXCEPT !.raised = r.raised, !.resolved = @ \o <<r.entry>>]
               ELSE ResolveAll(deps, i + 1, a,
                        [cache |-> r.cache, resolved |-> acc.resolved \o <<r.entry>>,
                         raised |-> "none"]) :
               r \in { The({ [cache |-> g.cache, raised |-> g.raised,
                              entry |-> [dep |-> i, include_body |-> a.include_body,
                                         list |-> g.list, hit |-> g.hit,
                                         raised |-> g.raised,
                                         enumerated |-> g.enumerated,
                                         decompiled |-> g.decompiled]] :
                             g \in {_get_dependency_symbols(acc.cache, deps[i],
                                                            a.include_body)} }) } })

\* the filter loop over all_symbols
FilterSymbols(all_symbols, a) ==
    SelectSeq(all_symbols, LAMBDA symbol :
        _matches_search_criteria(symbol, a.name_path, a.include_kinds,
                                 a.exclude_kinds, a.substring_matching))

\* the limit without its `max_results > 0` test
LimitWithoutPositiveTest(filtered_symbols) ==
    IF Len(filtered_symbols) > config.max_results
    THEN SubSeq(filtered_symbols, 1, config.max_results)
    ELSE filtered_symbols

\* the max_results limit
Limit(filtered_symbols) ==
    IF config.max_results > 0 /\ Len(filtered_symbols) > config.max_results
    THEN SubSeq(filtered_symbols, 1, config.max_results)
    ELSE filtered_symbols

(***************************************************************************)
(* Configurations, projects and the initial state.                         *)
(***************************************************************************)
\* DependencySymbolConfig(): the dataclass defaults; the float
\* min_confidence_threshold is counted in tenths (0.7 is 7, 1.0 is 10)
DefaultConfig ==
    [enabled |-> TRUE, max_results |-> 50,
     decompilation_enabled |-> FALSE, decompilation_depth |-> 1,
     include_private_members |-> FALSE,
     cache_enabled |-> TRUE, cache_ttl_seconds |-> 3600,
     include_nuget_packages |-> TRUE, include_external_dlls |-> TRUE,
     include_system_assemblies |-> FALSE,
     decompiler_backend |-> "ilspy", ilspycmd_path |-> "ilspycmd",
     external_search_paths |-> <<>>,
     min_confidence_threshold |-> 7]

\* backend names: the three recognised ones and an unrecognised one
BackendNames == {"ilspy", "cecil", "auto", "dnspy"}

\* PackageReference elements: Include/Version present, absent or empty
RefS1   == [Include |-> Some(<<"S">>), Version |-> Some(<<"1">>)]
RefLi2  == [Include |-> Some(<<"L","i">>), Version |-> Some(<<"2">>)]
RefNoV  == [Include |-> Some(<<"I","n">>), Version |-> None]
RefNoI  == [Include |-> None, Version |-> Some(<<"1">>)]
RefEmpV == [Include |-> Some(<<"I","n">>), Version |-> Some(<<>>)]

Parsed(refs) == [status |-> "ok", refs |-> refs]
Malformed == [status |-> "malformed", refs |-> <<>>]
Unreadable == [status |-> "unreadable", refs |-> <<>>]

PCsproj == <<"p",".","c","s","p","r","o","j">>
QCsproj == <<"q",".","c","s","p","r","o","j">>
AbDll == <<"A","b",".","d","l","l">>
CdDll == <<"C","d",".","d","l","l">>
SystemXDll == <<"S","y","s","t","e","m",".","X",".","d","l","l">>
NotesTxt == <<"n",".","t","x","t">>

\* what each assembly declares
TypesOf(p) ==
    CASE p = Path("proj", AbDll)      -> << <<"T">>, <<"U">> >>
      [] p = Path("proj/libs", AbDll) -> << <<"T">> >>
      [] p = Path("proj", SystemXDll) -> << <<"X">> >>
      [] OTHER                        -> << <<"V">> >>

\* a project tree: p.csproj, the dlls of the root and a text file in the root,
\* q.csproj (when hasQ) and dlls in proj/libs, dlls outside the project
MkProject(pm, hasQ, qm, projDlls, libDlls, extDlls) ==
    [files |-> [d \in Dirs |->
                   CASE d = "proj"      -> <<PCsproj>> \o projDlls \o <<NotesTxt>>
                     [] d = "proj/libs" -> (IF hasQ THEN <<QCsproj>> ELSE <<>>) \o libDlls
                     [] OTHER           -> extDlls],
     xml |-> [p \in {Path("proj", PCsproj), Path("proj/libs", QCsproj)} |->
                   IF p.dir = "proj" THEN pm ELSE qm]]

MainProject ==
    MkProject(Parsed(<<RefS1, RefLi2>>), FALSE, Malformed, <<AbDll>>, <<AbDll>>, <<>>)

NoArgs ==
    [name_path |-> <<>>, include_body |-> FALSE, include_kinds |-> None,
     exclude_kinds |-> None, substring_matching |-> FALSE,
     include_nuget |-> TRUE, include_external_dlls |-> TRUE]

\* the sizes of the dependency list and of the cache when a call starts
Before ==
    [deps |-> Len(_dependencies_info), cache |-> Cardinality(DOMAIN _dependency_cache)]

NoCall ==
    [op |-> "none", args |-> NoArgs, before |-> [deps |-> 0, cache |-> 0],
     raised |-> "none", message |-> "", discovered |-> FALSE,
     result |-> <<>>, resolved |-> <<>>, all_symbols |-> <<>>, filtered |-> <<>>]

\* the state after DependencySymbolRetriever(project, cfg), but for `call`
Constructed(cfg, project, t) ==
    /\ config = cfg
    /\ files = project.files
    /\ xml = project.xml
    /\ types = [p \in {Path(d, f) : d \in Dirs, f \in {AbDll, CdDll, SystemXDll}} |-> TypesOf(p)]
    /\ gone = {}
    /\ tool = t
    /\ _dependencies_info = <<>>
    /\ _dependency_cache = <<>>
    /\ _decompiler = _get_decompiler(cfg)
    /\ runs = 0

\* a process with one retriever
NoPeer == [some |-> FALSE]

InitWith(cfg, project, t) == Constructed(cfg, project, t) /\ call = NoCall /\ peer = NoPeer

EmptyProject == MkProject(Parsed(<<RefNoV>>), FALSE, Malformed, <<>>, <<>>, <<CdDll>>)

\* Retrieval: every backend name and decompilation setting; the state of the
\* external tool matters only where it is run
Init ==
    \E de \in BOOLEAN, b \in BackendNames, t \in ToolStates, pr \in {MainProject, EmptyProject} :
        /\ t # "ok" => de /\ b = "ilspy"
        /\ pr = EmptyProject => ~de /\ b = "ilspy" /\ t = "ok"
        /\ InitWith([DefaultConfig EXCEPT !.decompilation_enabled = de,
                                          !.decompiler_backend = b],
                    pr, t)

(***************************************************************************)
(* Operations.                                                             *)
(***************************************************************************)
\* one list and one dict for all instances, as class attributes would be
ClassAttributes == [same_list |-> TRUE, same_cache |-> TRUE]

\* __init__ binds a new list and a new dict in every instance: the list and
\* the dict of two retrievers are never the same object
NewAttributes == [same_list |-> FALSE, same_cache |-> FALSE]

\* The fields of the other retriever after an operation of this one has left
\* this one with new_list and new_cache.  An object the two retrievers share
\* shows the changes made in place (clear(), append(), item assignment);
\* rebinding self._dependencies_info (line 121) ends the sharing of the list.
PeerAfter(rebound, new_list, new_cache) ==
    IF ~peer.some THEN peer
    ELSE [peer EXCEPT !._dependency_cache = IF peer.same_cache THEN new_cache ELSE @,
                      !._dependencies_info = IF peer.same_list /\ ~rebound THEN new_list ELSE @,
                      !.same_list = @ /\ ~rebound]

\* clear_cache that forgets the dependency list
ClearCacheOnly ==
    /\ _dependency_cache' = <<>>
    /\ runs' = 0
    /\ call' = [NoCall EXCEPT !.op = "clear", !.before = Before]
    /\ peer' = PeerAfter(FALSE, _dependencies_info, <<>>)
    /\ UNCHANGED <<config, files, xml, types, gone, tool, _decompiler, _dependencies_info>>

clear_cache ==
    /\ _dependency_cache' = <<>>
    /\ _dependencies_info' = <<>>
    /\ runs' = 0
    /\ call' = [NoCall EXCEPT !.op = "clear", !.before = Before]
    /\ peer' = PeerAfter(FALSE, <<>>, <<>>)
    /\ UNCHANGED <<config, files, xml, types, gone, tool, _decompiler>>

list_dependencies ==
    /\ _dependencies_info # <<>> \/ runs < MaxRuns
    /\ \E d \in {EnsureDiscovered} :
          /\ _dependencies_info' = d.deps
          /\ runs' = IF d.ran THEN runs + 1 ELSE runs
          /\ call' = [NoCall EXCEPT !.op = "list", !.before = Before, !.raised = d.raised,
                                    !.discovered = d.ran,
                                    !.result = IF d.raised = "none" THEN d.deps ELSE <<>>]
          /\ peer' = PeerAfter(d.ran, d.deps, _dependency_cache)
    /\ UNCHANGED <<config, files, xml, types, gone, tool, _dependency_cache, _decompiler>>

\* the body of find_dependency_symbols after discovery d: the dependency loop
\* r, the filter and the limit
FindOutcome(a, d) ==
    The({ The({ [deps |-> d.deps, ran |-> d.ran, cache |-> r.cache,
                 call |-> [op |-> "find", args |-> a, before |-> Before,
                           raised |-> r.raised, message |-> "",
                           discovered |-> d.ran,
                           result |-> IF r.raised = "none"
                                      THEN Limit(FilterSymbols(all_symbols, a))
                                      ELSE <<>>,
                           resolved |-> r.resolved,
                           all_symbols |-> all_symbols,
                           filtered |-> IF r.raised = "none"
                                        THEN FilterSymbols(all_symbols, a)
                                        ELSE <<>>]] :
                all_symbols \in
                  { Concat([i \in 1..Len(r.resolved) |-> r.resolved[i].list.syms]) } }) :
          r \in { IF d.raised # "none"
                  THEN [cache |-> _dependency_cache, resolved |-> <<>>, raised |-> d.raised]
                  ELSE ResolveAll(d.deps, 1, a,
                           [cache |-> _dependency_cache, resolved |-> <<>>,
                            raised |-> "none"]) } })

find_dependency_symbols(a) ==
    /\ _dependencies_info # <<>> \/ runs < MaxRuns
    /\ \E d \in {EnsureDiscovered} :
       \E o \in {FindOutcome(a, d)} :
          /\ _dependencies_info' = o.deps
          /\ runs' = IF o.ran THEN runs + 1 ELSE runs
          /\ _dependency_cache' = o.cache
          /\ call' = o.call
          /\ peer' = PeerAfter(o.ran, o.deps, o.cache)
    /\ UNCHANGED <<config, files, xml, types, gone, tool, _decompiler>>

\* the environment: a dll disappears from disk
RemoveFile(p) ==
    /\ Cardinality(gone) < MaxGone
    /\ Exists(p)
    /\ EndsWith(p.file, DllExt)
    /\ gone' = gone \cup {p}
    /\ call' = [NoCall EXCEPT !.op = "env"]
    /\ UNCHANGED <<config, files, xml, types, tool, _dependencies_info,
                   _dependency_cache, _decompiler, runs, peer>>

\* queries that match every name, over both body flags and all toggles
FindArgs ==
    [name_path : {<<>>}, include_body : BOOLEAN,
     include_kinds : {None}, exclude_kinds : {None},
     substring_matching : {TRUE},
     include_nuget : BOOLEAN, include_external_dlls : BOOLEAN]

Find == \E a \in FindArgs : find_dependency_symbols(a)
Remove == \E p \in DOMAIN types : RemoveFile(p)

Next ==
    \/ list_dependencies
    \/ Find
    \/ clear_cache
    \/ Remove

Spec == Init /\ [][Next]_vars

(***************************************************************************)
(* Queries (specification SpecQuery): the filter and the limit over the    *)
(* symbols of the main project, for each max_results.                      *)
(***************************************************************************)
MaxResultsChoices == {-1, 0, 1, 2, 50}

InitQuery ==
    \E m \in MaxResultsChoices :
        InitWith([DefaultConfig EXCEPT !.max_results = m], MainProject, "ok")

KindFilters == { None, Some(<<>>), Some(<<"Class">>), Some(<<"Method">>) }

QueryArgs ==
    [name_path : { <<>>, <<"s","t">>, <<"A","B">> },
     include_body : {FALSE},
     include_kinds : KindFilters,
     exclude_kinds : { None, Some(<<"Class">>), Some(<<"Method">>) },
     substring_matching : BOOLEAN,
     include_nuget : {TRUE}, include_external_dlls : {TRUE}]

Query == \E a \in QueryArgs : find_dependency_symbols(a)

NextQuery ==
    \/ Query
    \/ clear_cache

SpecQuery == InitQuery /\ [][NextQuery]_vars

(***************************************************************************)
(* Matching (specification SpecMatch): the filter loop of                  *)
(* find_dependency_symbols applied to one symbol, over all short names and *)
(* patterns and the documented examples.                                   *)
(***************************************************************************)
MatchChars == {"a", "A", "b"}
Strings(n) == UNION { [1..k -> MatchChars] : k \in 0..n }

Console == <<"C","o","n","s","o","l","e">>
ExampleInputs ==
    { [name |-> Console, pattern |-> <<"C","O","N","S","O","L","E">>, substring |-> FALSE],
      [name |-> Console, pattern |-> <<"s","o","l","e">>, substring |-> TRUE],
      [name |-> Console, pattern |-> <<"s","o","l","e">>, substring |-> FALSE],
      [name |-> <<"T","e","s","t","C","l","a","s","s">>,
       pattern |-> <<"O","t","h","e","r","C","l","a","s","s">>, substring |-> FALSE],
      [name |-> <<"T","e","s","t","C","l","a","s","s">>,
       pattern |-> <<"T","e","s","t">>, substring |-> TRUE] }

MatchInputs ==
    { [symbol |-> [name |-> n, kind |-> "Class", location |-> <<>>],
       pattern |-> pt, substring |-> sb] :
        n \in {None} \cup {Some(x) : x \in Strings(MaxNameLen)},
        pt \in Strings(MaxNameLen), sb \in BOOLEAN }
    \cup
    { [symbol |-> [name |-> Some(e.name), kind |-> "Class", location |-> <<>>],
       pattern |-> e.pattern, substring |-> e.substring] : e \in ExampleInputs }

InitMatch ==
    /\ Constructed(DefaultConfig, EmptyProject, "ok")
    /\ peer = NoPeer
    /\ \E in \in MatchInputs :
          call = [NoCall EXCEPT !.op = "input",
                                !.args = [NoArgs EXCEPT !.name_path = in.pattern,
                                                        !.substring_matching = in.substring],
                                !.all_symbols = <<in.symbol>>]

\* lines 108-111 on the aggregated list
filter_symbols ==
    /\ call.op = "input"
    /\ call' = [call EXCEPT !.op = "match",
                            !.filtered = FilterSymbols(call.all_symbols, call.args)]
    /\ UNCHANGED <<config, files, xml, types, gone, tool, _dependencies_info,
                   _dependency_cache, _decompiler, runs, peer>>

NextMatch == filter_symbols

SpecMatch == InitMatch /\ [][NextMatch]_vars

(***************************************************************************)
(* Discovery (specification SpecDiscovery): project trees, search paths    *)
(* and the system-assembly option.                                         *)
(***************************************************************************)
DiscoveryProjects ==
    { MkProject(pm, hasQ, qm, projDlls, libDlls, <<CdDll>>) :
        pm \in { Parsed(<<RefS1, RefNoV>>), Parsed(<<RefEmpV, RefLi2>>), Parsed(<<RefNoI>>),
                 Malformed, Unreadable },
        hasQ \in BOOLEAN,
        qm \in { Parsed(<<RefLi2, RefS1>>), Malformed },
        projDlls \in { <<>>, <<AbDll, SystemXDll>> },
        libDlls \in { <<>>, <<AbDll>> } }

SearchPathChoices == { <<>>, <<"ext">>, <<"proj/libs">>, <<"nodir", "proj">> }

InitDiscovery ==
    \E pr \in DiscoveryProjects, sys \in BOOLEAN, sp \in SearchPathChoices :
        InitWith([DefaultConfig EXCEPT !.include_system_assemblies = sys,
                                       !.external_search_paths = sp],
                 pr, "ok")

NextDiscovery ==
    \/ list_dependencies
    \/ clear_cache
    \/ Remove

SpecDiscovery == InitDiscovery /\ [][NextDiscovery]_vars

(***************************************************************************)
(* Configuration validation (specification SpecConfig): configurations in  *)
(* and out of range, validated explicitly or used without validation.      *)
(***************************************************************************)
\* validate() with `max_results < 0` for its first test
ValidationErrorNegativeOnly(cfg) ==
    IF cfg.max_results < 0 THEN "max_results must be at least 1"
    ELSE IF cfg.decompilation_depth < 0 \/ cfg.decompilation_depth > 2
    THEN "decompilation_depth must be between 0 and 2"
    ELSE IF cfg.cache_ttl_seconds < 0 THEN "cache_ttl_seconds must be non-negative"
    ELSE IF ~(0 <= cfg.min_confidence_threshold /\ cfg.min_confidence_threshold <= 10)
    THEN "min_confidence_threshold must be between 0.0 and 1.0"
    ELSE ""

\* the message of the ValueError validate() raises, "" when it returns
ValidationError(cfg) ==
    IF cfg.max_results < 1 THEN "max_results must be at least 1"
    ELSE IF cfg.decompilation_depth < 0 \/ cfg.decompilation_depth > 2
    THEN "decompilation_depth must be between 0 and 2"
    ELSE IF cfg.cache_ttl_seconds < 0 THEN "cache_ttl_seconds must be non-negative"
    ELSE IF ~(0 <= cfg.min_confidence_threshold /\ cfg.min_confidence_threshold <= 10)
    THEN "min_confidence_threshold must be between 0.0 and 1.0"
    ELSE ""

\* self.config.validate(), called by the owner of the retriever
validate ==
    /\ \E msg \in {ValidationError(config)} :
          call' = [NoCall EXCEPT !.op = "validate", !.before = Before,
                                 !.raised = IF msg = "" THEN "none" ELSE "ValueError",
                                 !.message = msg]
    /\ UNCHANGED <<config, files, xml, types, gone, tool, _dependencies_info,
                   _dependency_cache, _decompiler, runs, peer>>

MaxResultsRange == {-1, 0, 1, 50}
DepthRange == {-1, 0, 1, 2, 3}
TtlRange == {-1, 0, 3600}
ThresholdRange == {-1, 0, 7, 10, 11}

InitConfig ==
    \E m \in MaxResultsRange, dp \in DepthRange, ttl \in TtlRange, th \in ThresholdRange :
        InitWith([DefaultConfig EXCEPT !.max_results = m,
                                       !.decompilation_depth = dp,
                                       !.cache_ttl_seconds = ttl,
                                       !.min_confidence_threshold = th],
                 MainProject, "ok")

NextConfig ==
    \/ validate
    \/ list_dependencies
    \/ clear_cache

SpecConfig == InitConfig /\ [][NextConfig]_vars

(***************************************************************************)
(* Options (specification SpecOptions): every backend name with each depth *)
(* and each state of the external tool, and the scope and cache options,   *)
(* while binaries disappear and the external tool stops working.           *)
(***************************************************************************)
\* decompilation_depth with include_private_members
DepthChoices == { [depth |-> 0, private |-> TRUE], [depth |-> 1, private |-> FALSE],
                  [depth |-> 2, private |-> TRUE] }

BackendConfigs ==
    { [DefaultConfig EXCEPT !.decompilation_enabled = TRUE,
                            !.decompiler_backend = b,
                            !.decompilation_depth = dc.depth,
                            !.include_private_members = dc.private] :
        b \in BackendNames, dc \in DepthChoices }

ScopeConfigs ==
    { [DefaultConfig EXCEPT !.include_nuget_packages = n,
                            !.include_external_dlls = x,
                            !.cache_enabled = c] :
        n \in BOOLEAN, x \in BOOLEAN, c \in BOOLEAN }

InitOptions ==
    \/ \E cfg \in BackendConfigs, t \in ToolStates : InitWith(cfg, MainProject, t)
    \/ \E cfg \in ScopeConfigs : InitWith(cfg, MainProject, "ok")

OptionArgs ==
    [name_path : {<<>>}, include_body : BOOLEAN,
     include_kinds : {None}, exclude_kinds : {None},
     substring_matching : {TRUE},
     include_nuget : BOOLEAN, include_external_dlls : {TRUE}]

FindWithOptions == \E a \in OptionArgs : find_dependency_symbols(a)

\* the environment: the external tool stops working (every later run of it
\* exits with a non-zero status)
ToolBreaks ==
    /\ tool = "ok"
    /\ tool' = "exit1"
    /\ call' = [NoCall EXCEPT !.op = "env"]
    /\ UNCHANGED <<config, files, xml, types, gone, _dependencies_info,
                   _dependency_cache, _decompiler, runs, peer>>

NextOptions ==
    \/ FindWithOptions
    \/ clear_cache
    \/ Remove
    \/ ToolBreaks

SpecOptions == InitOptions /\ [][NextOptions]_vars

(***************************************************************************)
(* Two retrievers (specification SpecTwo): two instances on one project in *)
(* one process, each constructed with no configuration (both then hold     *)
(* DEFAULT_DEPENDENCY_CONFIG) or with one of its own.  The variables hold  *)
(* the retriever the next operation is called on, peer holds the other.    *)
(***************************************************************************)
\* DependencySymbolRetriever(project, cfg) for the second instance
SecondRetriever(cfg) ==
    [some |-> TRUE, config |-> cfg, _dependencies_info |-> <<>>,
     _dependency_cache |-> <<>>, _decompiler |-> _get_decompiler(cfg), runs |-> 0,
     same_list |-> NewAttributes.same_list, same_cache |-> NewAttributes.same_cache]

TwoConfigs ==
    { DefaultConfig,
      [DefaultConfig EXCEPT !.decompilation_enabled = TRUE],
      [DefaultConfig EXCEPT !.decompiler_backend = "cecil"] }

InitTwo ==
    \E c1 \in TwoConfigs, c2 \in TwoConfigs :
        /\ Constructed(c1, MainProject, "ok")
        /\ call = NoCall
        /\ peer = SecondRetriever(c2)

\* the caller turns to the other instance
OtherRetriever ==
    /\ peer.some
    /\ config' = peer.config
    /\ _dependencies_info' = peer._dependencies_info
    /\ _dependency_cache' = peer._dependency_cache
    /\ _decompiler' = peer._decompiler
    /\ runs' = peer.runs
    /\ peer' = [peer EXCEPT !.config = config,
                            !._dependencies_info = _dependencies_info,
                            !._dependency_cache = _dependency_cache,
                            !._decompiler = _decompiler,
                            !.runs = runs]
    /\ call' = [NoCall EXCEPT !.op = "other"]
    /\ UNCHANGED <<files, xml, types, gone, tool>>

TwoArgs ==
    [name_path : {<<>>}, include_body : BOOLEAN,
     include_kinds : {None}, exclude_kinds : {None},
     substring_matching : {TRUE},
     include_nuget : {TRUE}, include_external_dlls : {TRUE}]

FindOnOne == \E a \in TwoArgs : find_dependency_symbols(a)

NextTwo ==
    \/ list_dependencies
    \/ FindOnOne
    \/ clear_cache
    \/ OtherRetriever

SpecTwo == InitTwo /\ [][NextTwo]_vars

(***************************************************************************)
(* Scans (specification SpecScan): discovery invoked directly, as the unit *)
(* test does, on a retriever that may already hold a dependency list.      *)
(***************************************************************************)
\* retriever._discover_dependencies()
Rediscover ==
    /\ runs < MaxRuns
    /\ \E d \in {_discover_dependencies} :
          /\ _dependencies_info' = d.deps
          /\ runs' = runs + 1
          /\ call' = [NoCall EXCEPT !.op = "discover", !.before = Before,
                                    !.raised = d.raised, !.discovered = TRUE]
          /\ peer' = PeerAfter(TRUE, d.deps, _dependency_cache)
    /\ UNCHANGED <<config, files, xml, types, gone, tool, _dependency_cache, _decompiler>>

NextScan ==
    \/ list_dependencies
    \/ Rediscover
    \/ Remove

SpecScan == InitDiscovery /\ [][NextScan]_vars

(***************************************************************************)
(* Packages (specification SpecPackages): manifests with two package       *)
(* references each, over names in either case, names the built-in table    *)
(* does not know, and names and versions that contain a colon.             *)
(***************************************************************************)
RefSystem == [Include |-> Some(<<"S","y","s","t","e","m">>), Version |-> Some(<<"4">>)]
RefLIST   == [Include |-> Some(<<"L","I","S","T">>), Version |-> Some(<<"1">>)]
RefJson   == [Include |-> Some(<<"J","s","o","n">>), Version |-> Some(<<"1">>)]
RefAB1    == [Include |-> Some(<<"a",":","b">>), Version |-> Some(<<"1">>)]
RefAB1v   == [Include |-> Some(<<"a">>), Version |-> Some(<<"b",":","1">>)]

PackageRefChoices == {RefSystem, RefLIST, RefJson, RefAB1, RefAB1v, RefS1}

InitPackages ==
    \E r1 \in PackageRefChoices, r2 \in PackageRefChoices :
        InitWith(DefaultConfig,
                 MkProject(Parsed(<<r1, r2>>), FALSE, Malformed, <<>>, <<>>, <<>>), "ok")

PackageArgs ==
    [name_path : {<<>>}, include_body : BOOLEAN,
     include_kinds : {None}, exclude_kinds : {None},
     substring_matching : {TRUE},
     include_nuget : {TRUE}, include_external_dlls : {FALSE}]

FindInPackages == \E a \in PackageArgs : find_dependency_symbols(a)

NextPackages ==
    \/ FindInPackages
    \/ clear_cache

SpecPackages == InitPackages /\ [][NextPackages]_vars

(***************************************************************************)
(* Views (specification SpecView): the caller of list_dependencies changes *)
(* the list it was given, or an entry of it, between the calls.            *)
(***************************************************************************)
\* lines 61-70 build a new list of new dicts on every call: neither the list
\* nor an entry of it is an object the retriever holds
ReturnedView == [same_list |-> FALSE, same_entries |-> FALSE]

\* result.pop(0)
DropFirst(deps) == Tail(deps)

\* result[0]["name"] = "x"
RenameFirst(deps) == [deps EXCEPT ![1].name = <<"x">>]

\* the caller modifies what list_dependencies returned
CallerModifies ==
    /\ call.op = "list"
    /\ call.raised = "none"
    /\ call.result # <<>>
    /\ \/ /\ call' = [call EXCEPT !.op = "modified", !.result = DropFirst(@)]
          /\ _dependencies_info' = IF ReturnedView.same_list
                                   THEN DropFirst(_dependencies_info)
                                   ELSE _dependencies_info
       \/ /\ call' = [call EXCEPT !.op = "modified", !.result = RenameFirst(@)]
          /\ _dependencies_info' = IF ReturnedView.same_list \/ ReturnedView.same_entries
                                   THEN RenameFirst(_dependencies_info)
                                   ELSE _dependencies_info
    /\ UNCHANGED <<config, files, xml, types, gone, tool, _dependency_cache,
                   _decompiler, runs, peer>>

InitView ==
    \E de \in BOOLEAN, pr \in {MainProject, EmptyProject}, t \in {"ok", "missing"} :
        InitWith([DefaultConfig EXCEPT !.decompilation_enabled = de], pr, t)

NextView ==
    \/ list_dependencies
    \/ FindOnOne
    \/ CallerModifies
    \/ clear_cache

SpecView == InitView /\ [][NextView]_vars

(***************************************************************************)
(* Properties of the retrieval pipeline (specification Spec).              *)
(***************************************************************************)
Dep(e) == _dependencies_info[e.dep]
Entries == {call.resolved[i] : i \in DOMAIN call.resolved}
IsFind == call.op = "find"

\* C1: with no clear_cache in between, _discover_dependencies runs at most
\* once over any sequence of list_dependencies and find_dependency_symbols
\* calls, whatever the discovery finds (runs counts the discoveries since
\* construction or the last clear_cache).
C1_DiscoveryAtMostOnce == runs <= 1

\* C2: clear_cache leaves the dependency list and the symbol cache empty,
\* whatever preceded it, and the next list_dependencies or
\* find_dependency_symbols runs discovery again, from an empty list.
C2_ClearThenRediscover ==
    [][ /\ call'.op = "clear" =>
              _dependencies_info' = <<>> /\ DOMAIN _dependency_cache' = {}
        /\ (runs = 0 /\ call'.op \in {"list", "find"}) =>
              /\ call'.discovered
              /\ runs' = 1
              /\ call'.before.deps = 0
              /\ _dependencies_info' = _discover_dependencies.deps ]_vars

C2_Witness ==
    /\ call.op = "clear"
    /\ call.before.deps > 0
    /\ call.before.cache > 0

\* C3: a resolution with one value of include_body is never answered with the
\* list created for the other value, and what it returns is the cache entry
\* of its own flag value.
C3_BodyFlagKeyed ==
    IsFind =>
        \A e \in Entries :
            /\ e.list.body = e.include_body
            /\ e.raised = "none" =>
                  \E k \in DOMAIN _dependency_cache :
                      /\ _dependency_cache[k] = e.list
                      /\ _dependency_cache[k].body = e.include_body

C3_Witness ==
    /\ IsFind
    /\ \E e \in Entries :
          /\ e.hit
          /\ e.include_body
          /\ \E k1, k2 \in DOMAIN _dependency_cache :
                /\ _dependency_cache[k1].path = Dep(e).path
                /\ _dependency_cache[k2].path = Dep(e).path
                /\ _dependency_cache[k1].body
                /\ ~_dependency_cache[k2].body

\* C4: with decompilation_enabled false, a freshly resolved dll dependency
\* whose path exists yields exactly one placeholder symbol named after the
\* dependency, for every decompiler_backend value.
C4_PlaceholderWhateverBackend ==
    (IsFind /\ ~config.decompilation_enabled) =>
        \A e \in Entries :
            (Dep(e).type = "dll" /\ ~e.hit /\ Exists(Dep(e).path.val)) =>
                /\ Len(e.list.syms) = 1
                /\ e.list.syms[1].name = Some(Dep(e).name)

\* C8 (as claimed): every resolution of a dll dependency whose path does not
\* exist returns an empty list and raises nothing (stated for the resolutions
\* that return a list created for the dependency's own path).
C8_MissingPathEmpty ==
    IsFind =>
        \A e \in Entries :
            (Dep(e).type = "dll" /\ ~Exists(Dep(e).path.val) /\ e.list.path = Dep(e).path) =>
                e.list.syms = <<>> /\ e.raised = "none"

\* C8 (amended): a resolution of a dll dependency that is not answered from
\* the cache returns an empty list and raises nothing when the path does not
\* exist, for every backend and decompilation setting.
C8_MissingPathEmptyOnMiss ==
    IsFind =>
        \A e \in Entries :
            (Dep(e).type = "dll" /\ ~e.hit /\ ~Exists(Dep(e).path.val)) =>
                e.list.syms = <<>> /\ e.raised = "none"

C8_Witness ==
    /\ IsFind
    /\ config.decompilation_enabled
    /\ _decompiler.some
    /\ \E e \in Entries :
          Dep(e).type = "dll" /\ ~e.hit /\ ~Exists(Dep(e).path.val)

\* C10: find_dependency_symbols resolves no dependency whose kind a toggle
\* switches off and returns no symbol of one; the dependencies of the other
\* kind are all resolved, in order.
C10_TogglesSkip ==
    IsFind =>
        LET a == call.args
            off(d) == \/ d.type = "nuget" /\ ~a.include_nuget
                      \/ d.type = "dll" /\ ~a.include_external_dlls
        IN /\ \A e \in Entries : ~off(Dep(e))
           /\ \A s \in Elems(call.result) :
                  \E e \in Entries : s \in Elems(e.list.syms) /\ ~off(Dep(e))
           /\ call.raised = "none" =>
                  /\ \A i \in DOMAIN _dependencies_info :
                        ~off(_dependencies_info[i]) => \E e \in Entries : e.dep = i
                  /\ \A i, j \in DOMAIN call.resolved :
                        i < j => call.resolved[i].dep < call.resolved[j].dep

C10_Witness ==
    /\ IsFind
    /\ ~call.args.include_nuget
    /\ call.args.include_external_dlls
    /\ call.result # <<>>
    /\ \E i \in DOMAIN _dependencies_info : _dependencies_info[i].type = "nuget"

\* C26: in every find_dependency_symbols call the symbol list a dll
\* descriptor contributes was computed from the path of that descriptor,
\* also when another descriptor has the same file name at a different path.
C26_SameNameResolvedApart ==
    IsFind =>
        \A e \in Entries :
            Dep(e).type = "dll" => e.list.path = Dep(e).path

(***************************************************************************)
(* Properties of queries (specification SpecQuery).                        *)
(***************************************************************************)
KindIn(s, kinds) == \E i \in DOMAIN kinds : kinds[i] = s.kind

\* C6: every symbol find_dependency_symbols keeps or returns has a kind that
\* is not in exclude_kinds and, when include_kinds is non-empty, is in
\* include_kinds; an absent or empty include_kinds keeps every symbol that an
\* absent one keeps; a kind in both sets is never returned.
C6_KindFilter ==
    IsFind =>
        LET a == call.args
            inc == IF a.include_kinds.some THEN a.include_kinds.val ELSE <<>>
            exc == IF a.exclude_kinds.some THEN a.exclude_kinds.val ELSE <<>>
        IN /\ \A s \in Elems(call.filtered) \cup Elems(call.result) :
                  /\ ~KindIn(s, exc)
                  /\ inc # <<>> => KindIn(s, inc)
                  /\ ~(KindIn(s, inc) /\ KindIn(s, exc))
           /\ inc = <<>> =>
                  call.filtered =
                      FilterSymbols(call.all_symbols, [a EXCEPT !.include_kinds = None])

C6_Witness ==
    /\ IsFind
    /\ call.args.include_kinds = Some(<<"Class">>)
    /\ call.args.exclude_kinds = Some(<<"Class">>)
    /\ call.args.name_path = <<>>
    /\ call.args.substring_matching
    /\ call.all_symbols # <<>>
    /\ call.result = <<>>

\* C7: the result is the first min(k, max_results) of the k matching symbols
\* when max_results > 0 and all k of them when max_results <= 0, the matching
\* symbols standing in the order of the aggregated list.
C7_Limit ==
    (IsFind /\ call.raised = "none") =>
        LET k == Len(call.filtered)
            m == config.max_results
            n == IF m > 0 /\ m < k THEN m ELSE k
        IN /\ Len(call.result) = n
           /\ \A i \in 1..n : call.result[i] = call.filtered[i]
           /\ call.filtered =
                  SelectSeq(call.all_symbols, LAMBDA s : s \in Elems(call.filtered))

C7_Witness ==
    /\ IsFind
    /\ config.max_results > 0
    /\ Len(call.filtered) > config.max_results
    /\ Len(call.result) = config.max_results

(***************************************************************************)
(* Properties of matching (specification SpecMatch).                       *)
(***************************************************************************)
\* the same letter, in either case
SameLetter(x, y) ==
    x = y \/ \E i \in DOMAIN UpperCase : {x, y} = {UpperCase[i], LowerCase[i]}

EqualIgnoringCase(n, pt) ==
    Len(n) = Len(pt) /\ \A i \in 1..Len(n) : SameLetter(n[i], pt[i])

ContainsIgnoringCase(n, pt) ==
    \E k \in 0..(Len(n) - Len(pt)) : \A j \in 1..Len(pt) : SameLetter(n[k + j], pt[j])

MatchedName == IF call.all_symbols[1].name.some THEN call.all_symbols[1].name.val ELSE <<>>

ManifestsOnDisk == {p \in DOMAIN xml : Exists(p)}
AllManifestsReadable == \A p \in ManifestsOnDisk : xml[p].status # "unreadable"

\* the references that carry both attributes / both attributes non-empty
RefsPresent ==
    UNION { { <<p, i>> : i \in { j \in DOMAIN xml[p].refs :
                                    xml[p].refs[j].Include.some /\ xml[p].refs[j].Version.some } } :
            p \in { q \in ManifestsOnDisk : xml[q].status = "ok" } }
RefsNonEmpty ==
    { r \in RefsPresent : /\ xml[r[1]].refs[r[2]].Include.val # <<>>
                         /\ xml[r[1]].refs[r[2]].Version.val # <<>> }

\* the directories under a search root
Under(root) ==
    CASE root = "proj" -> {"proj", "proj/libs"}
      [] root \in {"proj/libs", "ext"} -> {root}
      [] OTHER -> {}

\* the .dll files on disk under a root that the system-assembly policy keeps
DllFilesUnder(root) ==
    { p \in DOMAIN types :
        /\ p.dir \in Under(root)
        /\ Exists(p)
        /\ config.include_system_assemblies
           \/ \E i \in DOMAIN SystemPrefix : i > Len(p.file) \/ p.file[i] # SystemPrefix[i] }

SearchRoots == <<ProjectRoot>> \o config.external_search_paths
DllFilesOnDisk == UNION { DllFilesUnder(SearchRoots[i]) : i \in DOMAIN SearchRoots }
DllFilesPerRoot ==
    UNION { { <<i, p>> : p \in DllFilesUnder(SearchRoots[i]) } : i \in DOMAIN SearchRoots }

CountOfType(deps, t) == Cardinality({i \in DOMAIN deps : deps[i].type = t})

C15_DiscoveryRecovers ==
    (call.op = "list" /\ call.discovered) =>
        /\ call.raised = "none"
        /\ \A r \in RefsNonEmpty :
              \E j \in DOMAIN call.result :
                  /\ call.result[j].type = "nuget"
                  /\ call.result[j].name = xml[r[1]].refs[r[2]].Include.val
                  /\ call.result[j].version = xml[r[1]].refs[r[2]].Version.val
        /\ \A d \in DllFilesPerRoot :
              \E j \in DOMAIN call.result :
                  call.result[j].type = "dll" /\ call.result[j].path = Some(d[2])

\* the descriptors of a list that name a given binary / a given package
DescriptorsOfPath(deps, p) ==
    {j \in DOMAIN deps : deps[j].type = "dll" /\ deps[j].path = Some(p)}
DescriptorsOfPackage(deps, name, version) ==
    {j \in DOMAIN deps : deps[j].type = "nuget" /\ deps[j].name = name
                                                /\ deps[j].version = version}

\* C17: discovery appends and never de-duplicates: a binary has one
\* descriptor for every search root it is reachable through, and a package
\* reference has one descriptor for every manifest element that declares it.
C17_AppendedNotDeduplicated ==
    (call.op = "list" /\ call.discovered /\ call.raised = "none") =>
        /\ \A p \in DOMAIN types :
              Cardinality(DescriptorsOfPath(call.result, p))
                  = Cardinality({i \in DOMAIN SearchRoots : p \in DllFilesUnder(SearchRoots[i])})
        /\ \A r \in RefsNonEmpty :
              LET ref == xml[r[1]].refs[r[2]]
              IN Cardinality(DescriptorsOfPackage(call.result, ref.Include.val, ref.Version.val))
                     = Cardinality({q \in RefsNonEmpty :
                                       /\ xml[q[1]].refs[q[2]].Include = ref.Include
                                       /\ xml[q[1]].refs[q[2]].Version = ref.Version})

C17_Witness ==
    /\ call.op = "list"
    /\ call.discovered
    /\ call.raised = "none"
    /\ config.external_search_paths = <<"proj/libs">>
    /\ Cardinality(DescriptorsOfPath(call.result, Path("proj/libs", AbDll))) = 2
    /\ Cardinality(DescriptorsOfPath(call.result, Path("proj", AbDll))) = 1
    /\ Cardinality(DescriptorsOfPackage(call.result, <<"S">>, <<"1">>)) = 2

(***************************************************************************)
(* Properties of the scans (specification SpecScan).                       *)
(***************************************************************************)
\* C22: every invocation of discovery resets the list and runs the package
\* scan and then the binary scan, once each: it raises nothing, the list it
\* leaves holds the package descriptors before the binary ones, as many of
\* each as one scan finds, and an invocation that follows a discovery of the
\* same project leaves the same list.
C22_ResetThenEachScanOnce ==
    [][ call'.op = "discover" =>
            /\ call'.raised = "none"
            /\ \A i, j \in DOMAIN _dependencies_info' :
                   (_dependencies_info'[i].type = "nuget" /\ _dependencies_info'[j].type = "dll")
                       => i < j
            /\ CountOfType(_dependencies_info', "nuget") = Cardinality(RefsNonEmpty)
            /\ CountOfType(_dependencies_info', "dll") = Cardinality(DllFilesPerRoot)
            /\ (call.op \in {"list", "discover"} /\ call.discovered /\ call.raised = "none")
                   => _dependencies_info' = _dependencies_info ]_vars

(***************************************************************************)
(* Properties of packages (specification SpecPackages).                    *)
(***************************************************************************)
\* the entries of the built-in table a package name selects
TableEntriesFor(name) ==
    SelectSeq(common_types, LAMBDA t : \/ ContainsIgnoringCase(t.namespace, name)
                                       \/ ContainsIgnoringCase(t.type_name, name))

\* C23: the symbols computed for a nuget dependency are the entries of the
\* built-in table (Console, String, Int32, List, Dictionary), in table
\* order, whose namespace or type name contains the name of the dependency
\* ignoring case, whatever include_body is; a dependency named System gets
\* Console and String among them.
C23_PackageSymbols ==
    /\ [i \in DOMAIN common_types |-> common_types[i].type_name]
          = << <<"C","o","n","s","o","l","e">>, <<"S","t","r","i","n","g">>,
               <<"I","n","t","3","2">>, <<"L","i","s","t">>,
               <<"D","i","c","t","i","o","n","a","r","y">> >>
    /\ IsFind =>
          \A e \in Entries :
              (Dep(e).type = "nuget" /\ ~e.hit) =>
                  LET expected == TableEntriesFor(Dep(e).name)
                      syms == e.list.syms
                  IN /\ e.raised = "none"
                     /\ Len(syms) = Len(expected)
                     /\ \A i \in DOMAIN syms :
                           /\ syms[i].name = Some(expected[i].type_name)
                           /\ syms[i].kind = expected[i].kind
                     /\ Dep(e).name = <<"S","y","s","t","e","m">> =>
                           /\ syms # <<>>
                           /\ \E i \in DOMAIN syms : syms[i].name = Some(Console)
                           /\ \E i \in DOMAIN syms :
                                 syms[i].name = Some(<<"S","t","r","i","n","g">>)

C23_Witness ==
    /\ IsFind
    /\ call.args.include_body
    /\ \E e \in Entries : /\ ~e.hit
                           /\ Dep(e).name = <<"S","y","s","t","e","m">>
                           /\ Len(e.list.syms) = 5
    /\ \E e \in Entries : /\ ~e.hit
                           /\ Dep(e).name = <<"L","I","S","T">>
                           /\ Len(e.list.syms) = 1
                           /\ e.list.syms[1].name = Some(<<"L","i","s","t">>)

\* C25: two resolutions that differ in the kind, the name or the version of
\* the dependency or in the body flag never address the same cache entry,
\* whatever characters the names and the versions contain.
C25_KeyInjective ==
    IsFind =>
        \A e1, e2 \in Entries :
            LET d1 == Dep(e1)
                d2 == Dep(e2)
            IN <<d1.type, d1.name, d1.version, e1.include_body>>
                   # <<d2.type, d2.name, d2.version, e2.include_body>>
               => CacheKey(d1, e1.include_body) # CacheKey(d2, e2.include_body)

(***************************************************************************)
(* Properties of views (specification SpecView).                           *)
(***************************************************************************)
\* C24: list_dependencies runs discovery only when discovery has not run
\* since construction or the last clear_cache, leaves the symbol cache as it
\* was and returns the list of the retriever; a caller that modifies the
\* returned list or an entry of it changes neither the list nor the cache of
\* the retriever, so the later calls answer as if nothing had been modified.
C24_ReadOnlyView ==
    [][ /\ call'.op = "list" =>
              /\ call'.discovered => runs = 0
              /\ _dependency_cache' = _dependency_cache
              /\ ~call'.discovered => /\ _dependencies_info' = _dependencies_info
                                      /\ call'.result = _dependencies_info
        /\ call'.op = "modified" =>
              /\ call'.result # call.result
              /\ _dependencies_info' = _dependencies_info
              /\ _dependency_cache' = _dependency_cache ]_vars

(***************************************************************************)
(* Properties of configuration validation (specification SpecConfig).      *)
(***************************************************************************)
\* C11: validate() raises ValueError exactly when max_results < 1, or
\* decompilation_depth is outside 0..2, or cache_ttl_seconds < 0, or
\* min_confidence_threshold is outside [0,1]; it accepts the defaults; no
\* construction and no other operation raises ValueError for an invalid
\* configuration.
C11_Validate ==
    LET outOfRange == \/ config.max_results <= 0
                      \/ config.decompilation_depth \notin {0, 1, 2}
                      \/ config.cache_ttl_seconds <= -1
                      \/ config.min_confidence_threshold \notin 0..10
    IN /\ call.op = "validate" => (call.raised = "ValueError" <=> outOfRange)
       /\ call.op = "validate" => (call.raised = "none" <=> ~outOfRange)
       /\ (call.op = "validate" /\ config = DefaultConfig) => call.raised = "none"
       /\ call.op # "validate" => call.raised = "none"

C11_Witness ==
    /\ call.op = "validate"
    /\ call.raised = "ValueError"
    /\ config = [DefaultConfig EXCEPT !.max_results = 0]
    /\ _dependencies_info # <<>>

(***************************************************************************)
(* Properties of the options (specification SpecOptions).                  *)
(***************************************************************************)
\* C12: a backend operation never raises to its caller: whatever the
\* external tool does, no resolution raises, and a resolution that ran a
\* failing tool got an empty sequence of types.
C12_BackendNeverRaises ==
    IsFind =>
        /\ call.raised = "none"
        /\ \A e \in Entries :
              /\ e.raised = "none"
              /\ (tool # "ok" /\ e.enumerated # <<>>) => e.list.syms = <<>>

\* C13: with decompilation_depth = 0 no find_dependency_symbols call makes
\* the backend decompile the body of a type.
C13_DepthZeroNeverDecompiles ==
    (IsFind /\ config.decompilation_depth = 0) =>
        \A e \in Entries : e.decompiled = <<>>

C18_ConfigScopeHonoured ==
    IsFind =>
        LET off(d) == \/ d.type = "nuget" /\ ~config.include_nuget_packages
                      \/ d.type = "dll" /\ ~config.include_external_dlls
        IN \A e \in Entries : off(Dep(e)) => e.list.syms = <<>>

\* C19: with config.cache_enabled false no resolution is answered from the
\* symbol cache and none stores its result in it.
C19_CacheDisabled ==
    (IsFind /\ ~config.cache_enabled) =>
        /\ \A e \in Entries : ~e.hit
        /\ DOMAIN _dependency_cache = {}

TypesListed(p) ==
    IF _decompiler.val.class = "IlSpyDecompiler" /\ tool = "ok" THEN types[p] ELSE <<>>

\* C21: with a backend configured and decompilation enabled, the computation
\* of the symbols of a dll dependency whose path exists enumerates the types
\* once and returns one symbol for each enumerated type (none for an empty
\* enumeration); it decompiles the body of each type when include_body is
\* true and of none when it is false.
C21_OneSymbolPerType ==
    (IsFind /\ config.decompilation_enabled /\ _decompiler.some) =>
        \A e \in Entries :
            (Dep(e).type = "dll" /\ ~e.hit /\ Exists(Dep(e).path.val)) =>
                /\ e.raised = "none"
                /\ e.enumerated = <<Dep(e).path.val>>
                /\ Len(e.list.syms) = Len(TypesListed(Dep(e).path.val))
                /\ \A i \in DOMAIN e.list.syms :
                      e.list.syms[i] = _create_placeholder_dll_symbols(Dep(e))[1]
                /\ e.decompiled =
                      IF e.include_body
                      THEN [i \in DOMAIN TypesListed(Dep(e).path.val) |->
                               [path |-> Dep(e).path.val,
                                type |-> TypesListed(Dep(e).path.val)[i]]]
                      ELSE <<>>

(***************************************************************************)
(* Properties of two retrievers (specification SpecTwo).                   *)
(***************************************************************************)
\* C16: no list_dependencies, find_dependency_symbols or clear_cache on one
\* retriever changes the dependency list or the symbol cache of the other
\* retriever, two retrievers on the default configuration included.
C16_RetrieversIndependent ==
    [][ call'.op \in {"list", "find", "clear"} =>
            /\ peer'._dependencies_info = peer._dependencies_info
            /\ peer'._dependency_cache = peer._dependency_cache ]_vars

C16_Witness ==
    /\ call.op = "clear"
    /\ call.before.deps > 0
    /\ call.before.cache > 0
    /\ config = DefaultConfig
    /\ peer.config = DefaultConfig
    /\ _dependencies_info = <<>>
    /\ peer._dependencies_info # <<>>
    /\ DOMAIN peer._dependency_cache # {}

====
